---------------------------- MODULE Spec2Model ----------------------------
(***************************************************************************)
(* TensorNet (torchmdnet/models/tensornet.py): Cartesian-tensor message    *)
(* passing.  The model follows the source operation by operation.          *)
(*                                                                         *)
(* Numbers.  The source computes with float32 tensors.  Here a tensor      *)
(* element is an element of the prime field of order Prime, or the extra   *)
(* value NonFinite that stands for every non-finite float (inf or NaN).    *)
(* +, -, * and / of the source are the field operations; x / 0 is          *)
(* NonFinite and NonFinite absorbs every operation (IEEE: inf * 0, inf -   *)
(* inf and every operation on NaN are NaN; the source never divides a      *)
(* finite value by an infinite one, see LayerNorm below).  An integer k    *)
(* of the source is the residue F(k).  Reduction modulo Prime is a ring    *)
(* homomorphism on the rationals whose denominator is prime to Prime, so   *)
(* two results that differ here differ in exact arithmetic as well.        *)
(* Rounding is not modelled.                                               *)
(***************************************************************************)
EXTENDS Integers, Sequences, FiniteSets, TLC

VARIABLES
    pc,      \* position of the run: which operation has been applied
    self,    \* the module object: configuration fields, created sub-modules
    args,    \* the arguments of the call under study
    fwd,     \* locals and result of forward on args
    fwdT     \* locals and result of forward on the transformed arguments

vars == <<pc, self, args, fwd, fwdT>>

\* the value of fwd and fwdT before a run, and of self where no module object is used
NoRun == [none |-> TRUE]

(***************************************************************************)
(* Bounds of the model.                                                    *)
(***************************************************************************)
HiddenChannels == 2
NumRbf == 1
NumAtoms == 2
NumLayers == 1
MaxPad == 2
NumSeeds == 2

(***************************************************************************)
(* Tensor elements.                                                        *)
(***************************************************************************)
Prime == 32749
NonFinite == Prime

F(k) == k % Prime

IsFinite(x) == x # NonFinite

FAdd(x, y) == IF x = NonFinite \/ y = NonFinite THEN NonFinite ELSE (x + y) % Prime
FNeg(x) == IF x = NonFinite THEN NonFinite ELSE (Prime - x) % Prime
FSub(x, y) == FAdd(x, FNeg(y))
FMul(x, y) == IF x = NonFinite \/ y = NonFinite THEN NonFinite ELSE (x * y) % Prime

(***************************************************************************)
(* Bind(x, Body) is Body(x) with x evaluated once: TLC evaluates an        *)
(* operator's argument anew at each use, which the operators below avoid   *)
(* by binding every tensor-valued argument first.                          *)
(***************************************************************************)
Bind(x, Body(_)) == CHOOSE w \in {Body(v) : v \in {x}} : TRUE
Bind2(x, y, Body(_, _)) == CHOOSE w \in {Body(u, v) : u \in {x}, v \in {y}} : TRUE
Bind3(x, y, z, Body(_, _, _)) ==
    CHOOSE w \in {Body(u, v, t) : u \in {x}, v \in {y}, t \in {z}} : TRUE

RECURSIVE FPow(_, _)
\* x to the power n in the field, by repeated squaring
FPow(x, n) ==
    IF n = 0 THEN 1
    ELSE Bind(FPow(x, n \div 2), LAMBDA h :
            IF n % 2 = 1 THEN (((h * h) % Prime) * x) % Prime ELSE (h * h) % Prime)

\* 1 / y: a zero divisor gives inf or NaN
FInv(y) == IF y = NonFinite \/ y = 0 THEN NonFinite ELSE FPow(y, Prime - 2)
\* x / y
FDiv(x, y) == FMul(x, FInv(y))

RECURSIVE FSumTo(_, _)
FSumTo(f, hi) == IF hi < 1 THEN 0 ELSE FAdd(FSumTo(f, hi - 1), f[hi])
\* sum of f[k] for k in 1..n, left to right
FSum(f, n) == Bind(f, LAMBDA g : FSumTo(g, n))

(***************************************************************************)
(* 3x3 matrices: M[i][j], i, j in 1..3.                                    *)
(***************************************************************************)
Idx == 1..3
Chan == 1..HiddenChannels

Eye == [i \in Idx |-> [j \in Idx |-> IF i = j THEN 1 ELSE 0]]
ZeroMat == [i \in Idx |-> [j \in Idx |-> 0]]

MatAdd(A, B) == Bind2(A, B, LAMBDA a, b : [i \in Idx |-> [j \in Idx |-> FAdd(a[i][j], b[i][j])]])
MatSub(A, B) == Bind2(A, B, LAMBDA a, b : [i \in Idx |-> [j \in Idx |-> FSub(a[i][j], b[i][j])]])
MatScale(s, A) == Bind2(s, A, LAMBDA t, a : [i \in Idx |-> [j \in Idx |-> FMul(t, a[i][j])]])
\* A / s, every entry divided by the scalar s
MatDivS(A, s) ==
    Bind2(A, FInv(s), LAMBDA a, t : [i \in Idx |-> [j \in Idx |-> FMul(a[i][j], t)]])
Transpose(A) == Bind(A, LAMBDA a : [i \in Idx |-> [j \in Idx |-> a[j][i]]])
\* torch.matmul on the last two axes
MatMul(A, B) ==
    Bind2(A, B, LAMBDA a, b : [i \in Idx |-> [j \in Idx |->
        FAdd(FAdd(FMul(a[i][1], b[1][j]), FMul(a[i][2], b[2][j])), FMul(a[i][3], b[3][j]))]])
\* tensor ** 2: the power is taken entry by entry
ElemSquare(A) == Bind(A, LAMBDA a : [i \in Idx |-> [j \in Idx |-> FMul(a[i][j], a[i][j])]])
Trace(A) == Bind(A, LAMBDA a : FAdd(FAdd(a[1][1], a[2][2]), a[3][3]))
Third == FDiv(1, F(3))
Half == FDiv(1, F(2))
\* tensor.diagonal(...).mean(-1)
DiagMean(A) == FMul(Trace(A), Third)

(***************************************************************************)
(* Tensor algebra of the source.                                           *)
(***************************************************************************)
vector_to_skewtensor_Transposed(vector) ==
    Bind(vector, LAMBDA v :
        << << 0,          v[3],       FNeg(v[2]) >>,
           << FNeg(v[3]), 0,          v[1]       >>,
           << v[2],       FNeg(v[1]), 0          >> >>)

vector_to_skewtensor_SignSlip(vector) ==
    Bind(vector, LAMBDA v :
        << << 0,          v[3],       v[2]       >>,
           << v[3],       0,          FNeg(v[1]) >>,
           << FNeg(v[2]), v[1],       0          >> >>)

vector_to_skewtensor(vector) ==
    Bind(vector, LAMBDA v :
        << << 0,          FNeg(v[3]), v[2]       >>,
           << v[3],       0,          FNeg(v[1]) >>,
           << FNeg(v[2]), v[1],       0          >> >>)

vector_to_symtensor(vector) ==
    Bind(vector, LAMBDA v :
        Bind([i \in Idx |-> [j \in Idx |-> FMul(v[i], v[j])]], LAMBDA tensor :
            MatSub(MatScale(Half, MatAdd(tensor, Transpose(tensor))),
                   MatScale(DiagMean(tensor), Eye))))

decompose_NoTraceRemoval(tensor) ==
    Bind(tensor, LAMBDA t :
        [I |-> MatScale(DiagMean(t), Eye),
         A |-> MatScale(Half, MatSub(t, Transpose(t))),
         S |-> MatScale(Half, MatAdd(t, Transpose(t)))])

decompose_tensor(tensor) ==
    Bind(tensor, LAMBDA t :
        Bind(MatScale(DiagMean(t), Eye), LAMBDA I :
            [I |-> I,
             A |-> MatScale(Half, MatSub(t, Transpose(t))),
             S |-> MatSub(MatScale(Half, MatAdd(t, Transpose(t))), I)]))

\* (tensor ** 2).sum((-2, -1))
tensor_norm(tensor) ==
    Bind(ElemSquare(tensor), LAMBDA sq :
        FAdd(FAdd(FAdd(FAdd(sq[1][1], sq[1][2]), sq[1][3]),
                  FAdd(FAdd(sq[2][1], sq[2][2]), sq[2][3])),
             FAdd(FAdd(sq[3][1], sq[3][2]), sq[3][3])))

\* one atom and channel of new_radial_tensor
new_radial_tensor(I, A, S, f_I, f_A, f_S) ==
    [I |-> MatScale(f_I, I), A |-> MatScale(f_A, A), S |-> MatScale(f_S, S)]

(***************************************************************************)
(* Per-channel tensors: T[c] is the 3x3 matrix of channel c.  A node state *)
(* X maps a node index (0-based, as in the source) to such a tensor.       *)
(***************************************************************************)
ZeroCT == [c \in Chan |-> ZeroMat]
CTAdd(T, U) == Bind2(T, U, LAMBDA t, u : [c \in Chan |-> MatAdd(t[c], u[c])])
CTAdd3(I, A, S) ==
    Bind3(I, A, S, LAMBDA i, a, s : [c \in Chan |-> MatAdd(MatAdd(i[c], a[c]), s[c])])
Cat(x, y, n) == [k \in 1..(2 * n) |-> IF k <= n THEN x[k] ELSE y[k - n]]

(***************************************************************************)
(* Learned parameters.  reset_parameters draws them at random; the model   *)
(* fixes them by the seed of the module object.  tag names the layer, o    *)
(* the output feature and i the input feature (0 for a bias).              *)
(***************************************************************************)
Param(m, tag, o, i) ==
    LET h == (m.seed * 7 + tag * 5 + o * 3 + i * 11) % 5
    IN  F(IF h = 2 THEN 3 ELSE h - 2)

\* nn.Linear(nIn, nOut) applied to the feature vector x
Linear(m, tag, x, nIn, nOut, bias) ==
    Bind(x, LAMBDA v :
        [o \in 1..nOut |->
            FAdd(FSum([i \in 1..nIn |-> FMul(Param(m, tag, o, i), v[i])], nIn),
                 IF bias THEN Param(m, tag, o, 0) ELSE 0)])

\* linear(T.permute(0, 2, 3, 1)).permute(0, 3, 1, 2): a bias-free linear map on
\* the channel axis, the same for each of the nine matrix entries
ChannelMix(m, tag, T) ==
    Bind(T, LAMBDA t :
        [o \in Chan |-> [i \in Idx |-> [j \in Idx |->
            FSum([c \in Chan |-> FMul(Param(m, tag, o, c), t[c][i][j])], HiddenChannels)]]])

(***************************************************************************)
(* Collaborators outside the source file (torchmdnet.models.utils, torch). *)
(* Each is a scalar function; the model gives each a fixed stand-in over   *)
(* the field, since the originals (cosine, exponential, square root) have  *)
(* no exact values.                                                        *)
(***************************************************************************)
CutoffUpper == 4

\* CosineCutoff: decreasing in the distance, zero from cutoff_upper on
CosineCutoff(d) == IF d < CutoffUpper THEN F(CutoffUpper - d) ELSE 0

\* rbf_class_mapping[rbf_type]: num_rbf functions of the distance
distance_expansion(d) == [k \in 1..NumRbf |-> F((d + 1) * k)]

\* act_class_mapping[activation]: a non-linear function of one scalar
Act(x) == Bind(x, LAMBDA v : FAdd(FMul(v, v), v))

\* nn.LayerNorm over a feature vector of length n (weight 1, bias 0 as after
\* reset_parameters): every output depends on the mean of all inputs, so one
\* non-finite input makes the whole row non-finite
LayerNorm(x, n) ==
    Bind(x, LAMBDA v :
        Bind(FDiv(FSum(v, n), F(n)), LAMBDA mean : [k \in 1..n |-> FSub(v[k], mean)]))

(***************************************************************************)
(* TensorPassing.aggregate: scatter-add of per-edge values by index.       *)
(***************************************************************************)
RECURSIVE ScatterNode(_, _, _, _)
\* the sum, in edge order, of the values of edges 1..e whose index is a
ScatterNode(vals, index, a, e) ==
    IF e = 0 THEN ZeroCT
    ELSE LET prev == ScatterNode(vals, index, a, e - 1)
         IN  IF index[e] = a THEN CTAdd(prev, vals[e]) ELSE prev

scatter_FirstOnly(vals, index, dim_size) ==
    [a \in 0..(dim_size - 1) |->
        IF \E e \in 1..Len(index) : index[e] = a
        THEN vals[CHOOSE e \in 1..Len(index) :
                    index[e] = a /\ \A k \in 1..(e - 1) : index[k] # a]
        ELSE ZeroCT]

\* torch_scatter.scatter(vals, index, dim=0, dim_size=dim_size), reduce "sum"
scatter(vals, index, dim_size) ==
    Bind2(vals, index, LAMBDA v, ix :
        [a \in 0..(dim_size - 1) |-> ScatterNode(v, ix, a, Len(ix))])

TensorPassing_aggregate(features, index, dim_size) ==
    Bind(features, LAMBDA f :
        [I |-> scatter(f.I, index, dim_size),
         A |-> scatter(f.A, index, dim_size),
         S |-> scatter(f.S, index, dim_size)])

(***************************************************************************)
(* Edge normalisation (CapturableTensorNet.forward lines 200-201,          *)
(* TensorNet._update_interaction_layers lines 372-373).                    *)
(***************************************************************************)
\* number of True among mask[1..e]
RECURSIVE CountTrue(_, _)
CountTrue(mask, e) ==
    IF e = 0 THEN 0 ELSE CountTrue(mask, e - 1) + (IF mask[e] THEN 1 ELSE 0)

masked_scatter_Aligned(base, mask, source) ==
    [e \in 1..Len(base) |-> IF mask[e] THEN source[e] ELSE base[e]]

\* Tensor.masked_scatter: the positions where mask is True receive the
\* elements of source taken consecutively from its start
masked_scatter(base, mask, source) ==
    [e \in 1..Len(base) |-> IF mask[e] THEN source[CountTrue(mask, e)] ELSE base[e]]

\* ones_like(edge_weight).masked_scatter(mask, edge_weight), mask = (src != tgt)
EdgeDivisor(src, tgt, edge_weight) ==
    masked_scatter([e \in 1..Len(edge_weight) |-> 1],
                   [e \in 1..Len(edge_weight) |-> src[e] # tgt[e]],
                   [e \in 1..Len(edge_weight) |-> F(edge_weight[e])])

\* edge_vec / divisor.unsqueeze(1)
NormalizeEdgeVec(edge_vec, divisor) ==
    Bind(divisor, LAMBDA d :
        [e \in 1..Len(edge_vec) |-> [k \in Idx |-> FDiv(F(edge_vec[e][k]), d[e])]])

(***************************************************************************)
(* Parameter tags of the sub-modules.                                      *)
(***************************************************************************)
TagProj(k) == k              \* TensorEmbedding.distance_proj1..3
TagEmb == 4                  \* TensorEmbedding.emb
TagEmb2 == 5                 \* TensorEmbedding.emb2
TagEmbTensor(k) == 6 + k     \* TensorEmbedding.linears_tensor[0..2]
TagEmbScalar(k) == 9 + k     \* TensorEmbedding.linears_scalar[0..1]
TagOut == 11                 \* self.linear
TagLayerScalar(l, k) == 20 * l + k        \* layers[l-1].linears_scalar[0..2]
TagLayerTensor(l, k) == 20 * l + 3 + k    \* layers[l-1].linears_tensor[0..5]

\* norm.reshape(n, hidden_channels, 3)[c, k], and the same for edge_attr
Reshape3(flat, c, k) == flat[3 * (c - 1) + k + 1]

(***************************************************************************)
(* TensorEmbedding.forward with its message and the aggregation.  z maps   *)
(* the nodes 0..n-1 to species; src = edge_index[0], tgt = edge_index[1].  *)
(* The helper operators take the locals of forward as parameters.          *)
(***************************************************************************)
\* the three per-edge tensors of one edge, per channel: new_radial_tensor with
\* W1, W2, W3, then message's product with Zij
EmbeddingEdge(W1, W2, W3, Zij, skew, sym) ==
    Bind3(<<W1, W2, W3>>, Zij, <<skew, sym>>, LAMBDA W, Zc, t :
        [c \in Chan |->
            Bind(new_radial_tensor(Eye, t[1], t[2], W[1][c], W[2][c], W[3][c]), LAMBDA r :
                new_radial_tensor(r.I, r.A, r.S, Zc[c], Zc[c], Zc[c]))])

\* W_k = distance_proj_k(edge_attr) * C
EmbeddingW(m, k, attr, C) ==
    Bind(Linear(m, TagProj(k), attr, NumRbf, HiddenChannels, TRUE), LAMBDA p :
        [c \in Chan |-> FMul(p[c], C)])

\* message: Z_i is the target's embedding, Z_j the source's
EmbeddingMessages(m, Z, src, tgt, edge_weight, edge_vec_norm, edge_attr) ==
    [e \in 1..Len(src) |->
        EmbeddingEdge(EmbeddingW(m, 1, edge_attr[e], CosineCutoff(edge_weight[e])),
                      EmbeddingW(m, 2, edge_attr[e], CosineCutoff(edge_weight[e])),
                      EmbeddingW(m, 3, edge_attr[e], CosineCutoff(edge_weight[e])),
                      Linear(m, TagEmb2, Cat(Z[tgt[e]], Z[src[e]], HiddenChannels),
                             2 * HiddenChannels, HiddenChannels, TRUE),
                      vector_to_skewtensor(edge_vec_norm[e]),
                      vector_to_symtensor(edge_vec_norm[e]))]

\* the tuple (I, A, S) of per-edge tensors handed to aggregate
SplitIAS(edgeT) ==
    Bind(edgeT, LAMBDA t :
        [I |-> [e \in DOMAIN t |-> [c \in Chan |-> t[e][c].I]],
         A |-> [e \in DOMAIN t |-> [c \in Chan |-> t[e][c].A]],
         S |-> [e \in DOMAIN t |-> [c \in Chan |-> t[e][c].S]]])

\* lines 514 and 518-520: the 3 * hidden_channels gates of one atom from its
\* norm per channel
EmbeddingGates(m, norm0) ==
    Bind(Linear(m, TagEmbScalar(0), LayerNorm(norm0, HiddenChannels),
                HiddenChannels, 2 * HiddenChannels, TRUE), LAMBDA h1 :
        Bind(Linear(m, TagEmbScalar(1), [k \in 1..(2 * HiddenChannels) |-> Act(h1[k])],
                    2 * HiddenChannels, 3 * HiddenChannels, TRUE), LAMBDA h2 :
            [k \in 1..(3 * HiddenChannels) |-> Act(h2[k])]))

\* lines 521-522 for one atom
EmbeddingCombine(I, A, S, gates) ==
    Bind2(<<I, A, S>>, gates, LAMBDA p, g :
        [c \in Chan |->
            Bind(new_radial_tensor(p[1][c], p[2][c], p[3][c], Reshape3(g, c, 0),
                                   Reshape3(g, c, 1), Reshape3(g, c, 2)), LAMBDA r :
                MatAdd(MatAdd(r.I, r.A), r.S))])

\* lines 513-523 for one atom, from its aggregated I, A, S
EmbeddingNode(m, I, A, S) ==
    EmbeddingCombine(ChannelMix(m, TagEmbTensor(0), I),
                     ChannelMix(m, TagEmbTensor(1), A),
                     ChannelMix(m, TagEmbTensor(2), S),
                     EmbeddingGates(m, Bind(CTAdd3(I, A, S), LAMBDA t :
                                            [c \in Chan |-> tensor_norm(t[c])])))

EmbeddingNodes(m, agg) ==
    Bind(agg, LAMBDA g :
        [a \in DOMAIN g.I |-> EmbeddingNode(m, g.I[a], g.A[a], g.S[a])])

TensorEmbedding_forward(m, z, src, tgt, edge_weight, edge_vec_norm, edge_attr) ==
    Bind([a \in DOMAIN z |-> [c \in Chan |-> Param(m, TagEmb, c, z[a] + 1)]], LAMBDA Z :
        EmbeddingNodes(m,
            TensorPassing_aggregate(
                SplitIAS(EmbeddingMessages(m, Z, src, tgt, edge_weight, edge_vec_norm,
                                           edge_attr)),
                tgt, Cardinality(DOMAIN z))))

(***************************************************************************)
(* Interaction.forward of layer l, with its message and the aggregation.   *)
(* The result holds the locals the properties refer to: Xn (X after the    *)
(* division by its norm), dX, and the returned X.                          *)
(***************************************************************************)
\* lines 594-600: the mixing of msg and Y selected by equivariance_invariance_group
GroupMix(group, msg, Y, ICur, ACur, SCur) ==
    IF group = "SO(3)" THEN decompose_tensor(MatScale(F(2), MatMul(Y, msg)))
    ELSE IF group = "O(3)" THEN decompose_tensor(MatAdd(MatMul(msg, Y), MatMul(Y, msg)))
    ELSE [I |-> ICur, A |-> ACur, S |-> SCur]

ResidualMatrixSquare(X, dX) ==
    Bind2(X, dX, LAMBDA x, d : MatAdd(MatAdd(x, d), MatMul(d, d)))

\* line 607: X + dX + dX**2
Residual(X, dX) ==
    Bind2(X, dX, LAMBDA x, d : MatAdd(MatAdd(x, d), ElemSquare(d)))

\* lines 577-582: the 3 * hidden_channels gates of one edge
InteractionGates(m, l, attr, C) ==
    Bind(Linear(m, TagLayerScalar(l, 0), attr, NumRbf, HiddenChannels, TRUE), LAMBDA h0 :
        Bind(Linear(m, TagLayerScalar(l, 1), [k \in Chan |-> Act(h0[k])],
                    HiddenChannels, 2 * HiddenChannels, TRUE), LAMBDA h1 :
            Bind(Linear(m, TagLayerScalar(l, 2),
                        [k \in 1..(2 * HiddenChannels) |-> Act(h1[k])],
                        2 * HiddenChannels, 3 * HiddenChannels, TRUE), LAMBDA h2 :
                [k \in 1..(3 * HiddenChannels) |-> FMul(Act(h2[k]), C)])))

\* line 583
NormalizeX(X) ==
    Bind(X, LAMBDA x :
        [a \in DOMAIN x |-> [c \in Chan |->
            MatDivS(x[a][c], FAdd(tensor_norm(x[a][c]), 1))]])

\* the three channel maps linears_tensor[k0 .. k0+2] on the parts of one atom
MixParts(m, l, k0, dec) ==
    Bind(dec, LAMBDA d :
        [I |-> ChannelMix(m, TagLayerTensor(l, k0), [c \in Chan |-> d[c].I]),
         A |-> ChannelMix(m, TagLayerTensor(l, k0 + 1), [c \in Chan |-> d[c].A]),
         S |-> ChannelMix(m, TagLayerTensor(l, k0 + 2), [c \in Chan |-> d[c].S])])

\* lines 584-587: decompose, then mix the channels of each part
InteractionMixed(m, l, Xn) ==
    [a \in DOMAIN Xn |-> MixParts(m, l, 0, [c \in Chan |-> decompose_tensor(Xn[a][c])])]

\* message: the source's I_j, A_j, S_j scaled by the edge's three gates
InteractionEdge(parts, gates) ==
    Bind2(parts, gates, LAMBDA p, g :
        [c \in Chan |->
            new_radial_tensor(p.I[c], p.A[c], p.S[c], Reshape3(g, c, 0),
                              Reshape3(g, c, 1), Reshape3(g, c, 2))])

InteractionMessages(m, l, P, src, edge_weight, edge_attr) ==
    [e \in 1..Len(src) |->
        InteractionEdge(P[src[e]],
                        InteractionGates(m, l, edge_attr[e], CosineCutoff(edge_weight[e])))]

\* lines 601-602 for one atom and channel
MixAndNormalize(dec) ==
    Bind(dec, LAMBDA d :
        Bind(FAdd(tensor_norm(MatAdd(MatAdd(d.I, d.A), d.S)), 1), LAMBDA normp1 :
            [I |-> MatDivS(d.I, normp1), A |-> MatDivS(d.A, normp1),
             S |-> MatDivS(d.S, normp1)]))

\* lines 588 and 593-606 for one atom: dX from its mixed parts and aggregated message
InteractionDX(m, l, parts, msg) ==
    Bind3(parts, CTAdd3(parts.I, parts.A, parts.S), msg, LAMBDA p, Y, g :
        Bind(MixParts(m, l, 3,
                [c \in Chan |->
                    MixAndNormalize(GroupMix(m.group, g[c], Y[c], p.I[c], p.A[c], p.S[c]))]),
             LAMBDA r : CTAdd3(r.I, r.A, r.S)))

InteractionDXAll(m, l, P, agg) ==
    Bind(agg, LAMBDA g :
        [a \in DOMAIN P |-> InteractionDX(m, l, P[a], CTAdd3(g.I[a], g.A[a], g.S[a]))])

InteractionResult(Xn, dX) ==
    Bind(dX, LAMBDA d :
        [Xn |-> Xn, dX |-> d,
         X |-> [a \in DOMAIN Xn |-> [c \in Chan |-> Residual(Xn[a][c], d[a][c])]]])

InteractionPropagate(m, l, Xn, P, src, tgt, edge_weight, edge_attr) ==
    InteractionResult(Xn,
        InteractionDXAll(m, l, P,
            TensorPassing_aggregate(
                SplitIAS(InteractionMessages(m, l, P, src, edge_weight, edge_attr)),
                tgt, Cardinality(DOMAIN Xn))))

Interaction_forward(m, l, X, src, tgt, edge_weight, edge_attr) ==
    Bind(NormalizeX(X), LAMBDA Xn :
        Bind(InteractionMixed(m, l, Xn), LAMBDA P :
            InteractionPropagate(m, l, Xn, P, src, tgt, edge_weight, edge_attr)))

(***************************************************************************)
(* The readout at the end of forward: the squared norms of I, A and S,     *)
(* concatenated, then out_norm, linear and the activation.                 *)
(***************************************************************************)
ReadoutNorms(X) ==
    [a \in DOMAIN X |->
        Bind([c \in Chan |-> decompose_tensor(X[a][c])], LAMBDA d :
            [k \in 1..(3 * HiddenChannels) |->
                LET c == ((k - 1) % HiddenChannels) + 1
                    part == (k - 1) \div HiddenChannels
                IN  tensor_norm(IF part = 0 THEN d[c].I
                                ELSE IF part = 1 THEN d[c].A ELSE d[c].S)])]

Readout(m, norms) ==
    [a \in DOMAIN norms |->
        Bind(Linear(m, TagOut, LayerNorm(norms[a], 3 * HiddenChannels),
                    3 * HiddenChannels, HiddenChannels, TRUE), LAMBDA y :
            [c \in Chan |-> Act(y[c])])]

RECURSIVE ApplyLayers(_, _, _, _, _, _, _)
\* for layer in self.layers: X = layer(X, edge_index, edge_weight, edge_attr)
ApplyLayers(m, l, X, src, tgt, edge_weight, edge_attr) ==
    IF l > m.num_layers THEN X
    ELSE Bind(Interaction_forward(m, l, X, src, tgt, edge_weight, edge_attr).X, LAMBDA X1 :
            ApplyLayers(m, l + 1, X1, src, tgt, edge_weight, edge_attr))

\* TensorNet._update_interaction_layers
update_interaction_layers(m, z, src, tgt, edge_weight, edge_vec) ==
    Bind([e \in 1..Len(src) |-> distance_expansion(edge_weight[e])], LAMBDA edge_attr :
        Bind(TensorEmbedding_forward(m, z, src, tgt, edge_weight,
                NormalizeEdgeVec(edge_vec, EdgeDivisor(src, tgt, edge_weight)), edge_attr),
             LAMBDA X0 :
                Bind(ApplyLayers(m, 1, X0, src, tgt, edge_weight, edge_attr), LAMBDA X :
                    Readout(m, Bind(ReadoutNorms(X), LAMBDA norms : norms)))))

(***************************************************************************)
(* The neighbour-graph provider (OptimizedDistance, outside the source     *)
(* file): every ordered pair of distinct atoms closer than cutoff_upper,   *)
(* and one self-loop per atom with distance 0 and a zero vector.  Atom k   *)
(* sits at k * p, so that every distance is an integer.                    *)
(***************************************************************************)
Displacements == {<<1, 0, 0>>, <<0, -2, 0>>, <<1, 2, 2>>, <<-2, 1, 2>>}

Dot(u, v) == u[1] * v[1] + u[2] * v[2] + u[3] * v[3]
IntNorm(v) == CHOOSE d \in 0..(3 * NumAtoms) : d * d = Dot(v, v)
VecScale(k, v) == <<k * v[1], k * v[2], k * v[3]>>

\* the pairs (i, j) in row-major order, self-loops included
AllPairs == [k \in 1..(NumAtoms * NumAtoms) |->
                [src |-> (k - 1) \div NumAtoms, tgt |-> (k - 1) % NumAtoms]]
IsLoop(e) == e.src = e.tgt
NotLoop(e) == e.src # e.tgt

\* the three orders in which the provider is taken to list the edges:
\* 1 self-loops last, 2 row-major (the list starts with a self-loop), 3 self-loops first
PairOrder(order) ==
    IF order = 1 THEN SelectSeq(AllPairs, NotLoop) \o SelectSeq(AllPairs, IsLoop)
    ELSE IF order = 2 THEN AllPairs
    ELSE SelectSeq(AllPairs, IsLoop) \o SelectSeq(AllPairs, NotLoop)

\* the provider's output for atoms at k * p, followed by pad sentinel slots
Distance(p, order, pad) ==
    LET InRange(e) == IntNorm(VecScale(e.src - e.tgt, p)) < CutoffUpper
        pairs == SelectSeq(PairOrder(order), InRange)
        E == Len(pairs)
        all == 1..(E + pad)
    IN  [src |-> [e \in all |-> IF e <= E THEN pairs[e].src ELSE -1],
         tgt |-> [e \in all |-> IF e <= E THEN pairs[e].tgt ELSE -1],
         edge_weight |-> [e \in all |->
            IF e <= E THEN IntNorm(VecScale(pairs[e].src - pairs[e].tgt, p)) ELSE 0],
         edge_vec |-> [e \in all |->
            IF e <= E THEN VecScale(pairs[e].src - pairs[e].tgt, p) ELSE <<0, 0, 0>>]]

(***************************************************************************)
(* Orthogonal transforms with integer entries: the 48 signed permutation   *)
(* matrices.  R[i] = <<s, k>>: row i of R holds the sign s in column k.    *)
(***************************************************************************)
Perms3 == {<<1, 2, 3>>, <<2, 3, 1>>, <<3, 1, 2>>, <<2, 1, 3>>, <<1, 3, 2>>, <<3, 2, 1>>}
Signs == {-1, 1}
SignedPerms == {[i \in Idx |-> <<s[i], q[i]>>] : s \in [Idx -> Signs], q \in Perms3}

PermSign(q) == IF q \in {<<1, 2, 3>>, <<2, 3, 1>>, <<3, 1, 2>>} THEN 1 ELSE -1
Det(R) == R[1][1] * R[2][1] * R[3][1] * PermSign([i \in Idx |-> R[i][2]])

\* R . v for an integer vector v
Apply(R, v) == [i \in Idx |-> R[i][1] * v[R[i][2]]]
\* R . T . R^t: entry (i, j) is s_i s_j T[k_i][k_j]
Conj(R, T) ==
    [i \in Idx |-> [j \in Idx |->
        LET t == T[R[i][2]][R[j][2]]
        IN  IF R[i][1] * R[j][1] = 1 THEN t ELSE FNeg(t)]]
ConjAll(R, X) == [a \in DOMAIN X |-> [c \in Chan |-> Conj(R, X[a][c])]]
TransposeAll(X) == [a \in DOMAIN X |-> [c \in Chan |-> Transpose(X[a][c])]]

Identity3 == [i \in Idx |-> <<1, i>>]
MinusIdentity == [i \in Idx |-> <<-1, i>>]
\* the rotation by 90 degrees about the z axis
RotZ90 == <<<<-1, 2>>, <<1, 1>>, <<1, 3>>>>
\* the rotation by 180 degrees about the z axis
RotZ180 == <<<<-1, 1>>, <<-1, 2>>, <<1, 3>>>>
\* the rotation by 120 degrees about the diagonal
Rot120 == <<<<1, 2>>, <<1, 3>>, <<1, 1>>>>
\* the mirror z -> -z
MirrorZ == <<<<1, 1>>, <<1, 2>>, <<-1, 3>>>>
\* the mirror that swaps x and y
MirrorXY == <<<<1, 2>>, <<1, 1>>, <<1, 3>>>>

Transforms == {RotZ90, RotZ180, Rot120, MinusIdentity, MirrorZ, MirrorXY}

Groups == {"O(3)", "SO(3)"}

(***************************************************************************)
(* Specification Spec: TensorNet._update_interaction_layers on the         *)
(* provider's edges (fwd), and on the edges the provider returns for the   *)
(* transformed positions R . pos (fwdT).  Each action is one step of the   *)
(* function, applied to both runs.                                         *)
(***************************************************************************)
Species(zseed) == [a \in 0..(NumAtoms - 1) |-> 1 + ((a + zseed) % 2)]

Init ==
    /\ pc = "call"
    /\ \E g \in Groups, sd \in 1..NumSeeds, nl \in 0..NumLayers :
        self = [group |-> g, seed |-> sd, num_layers |-> nl]
    /\ \E p \in Displacements, order \in 1..3, R \in Transforms, zseed \in 0..1 :
        LET d == Distance(p, order, 0)
        IN  args = [z |-> Species(zseed), src |-> d.src, tgt |-> d.tgt,
                    edge_weight |-> d.edge_weight, edge_vec |-> d.edge_vec,
                    R |-> R,
                    edge_vecT |-> [e \in 1..Len(d.src) |-> Apply(R, d.edge_vec[e])]]
    /\ fwd = NoRun
    /\ fwdT = NoRun

\* lines 371-373: edge_attr, the divisor and the normalised edge_vec
NormalizeStep(edge_vec) ==
    LET divisor == EdgeDivisor(args.src, args.tgt, args.edge_weight)
    IN  [edge_attr |-> [e \in 1..Len(args.src) |-> distance_expansion(args.edge_weight[e])],
         divisor |-> divisor,
         edge_vec |-> NormalizeEdgeVec(edge_vec, divisor),
         l |-> 0]

Normalize ==
    /\ pc = "call"
    /\ pc' = "normalized"
    /\ fwd' = NormalizeStep(args.edge_vec)
    /\ fwdT' = NormalizeStep(args.edge_vecT)
    /\ UNCHANGED <<self, args>>

\* line 374
EmbedStep(f) ==
    [edge_attr |-> f.edge_attr, divisor |-> f.divisor, edge_vec |-> f.edge_vec, l |-> 0,
     X |-> TensorEmbedding_forward(self, args.z, args.src, args.tgt, args.edge_weight,
                                   f.edge_vec, f.edge_attr)]

Embed ==
    /\ pc = "normalized"
    /\ pc' = "embedded"
    /\ fwd' = EmbedStep(fwd)
    /\ fwdT' = EmbedStep(fwdT)
    /\ UNCHANGED <<self, args>>

\* lines 375-376, one turn of the loop
LayerStep(f) ==
    LET r == Interaction_forward(self, f.l + 1, f.X, args.src, args.tgt,
                                 args.edge_weight, f.edge_attr)
    IN  [edge_attr |-> f.edge_attr, divisor |-> f.divisor, edge_vec |-> f.edge_vec,
         l |-> f.l + 1, Xin |-> f.X, Xn |-> r.Xn, dX |-> r.dX, X |-> r.X]

Interact ==
    /\ pc \in {"embedded", "layer"}
    /\ fwd.l < self.num_layers
    /\ pc' = "layer"
    /\ fwd' = LayerStep(fwd)
    /\ fwdT' = LayerStep(fwdT)
    /\ UNCHANGED <<self, args>>

\* lines 377-381
ReadoutStep(f) ==
    LET norms == ReadoutNorms(f.X)
    IN  [edge_attr |-> f.edge_attr, divisor |-> f.divisor, edge_vec |-> f.edge_vec,
         l |-> f.l, X |-> f.X, norms |-> norms, x |-> Readout(self, norms)]

ReadOut ==
    /\ pc \in {"embedded", "layer"}
    /\ fwd.l = self.num_layers
    /\ pc' = "done"
    /\ fwd' = ReadoutStep(fwd)
    /\ fwdT' = ReadoutStep(fwdT)
    /\ UNCHANGED <<self, args>>

Next == Normalize \/ Embed \/ Interact \/ ReadOut

Spec == Init /\ [][Next]_vars

(***************************************************************************)
(* Properties checked under Spec.                                          *)
(***************************************************************************)
Edges == 1..Len(args.src)
Nodes == DOMAIN args.z
IsRotation == Det(args.R) = 1

\* C1: one interaction layer is equivariant under every rotation R: run on
\* the node state R.X.R^t (same edges, distances and weights) it returns
\* R.(output for X).R^t for every atom and channel, in both groups.
C1_InteractionEquivariant ==
    (pc = "layer" /\ IsRotation /\ fwdT.Xin = ConjAll(args.R, fwd.Xin))
        => fwdT.X = ConjAll(args.R, fwd.X)

\* C2 as stated: the embedding of the edges R.v is R.T.R^t for every orthogonal
\* R, reflections included, and so are skew(R.v) and symtensor(R.v).
C2_EmbeddingEquivariantO3 ==
    pc = "embedded" =>
        /\ fwdT.X = ConjAll(args.R, fwd.X)
        /\ \A e \in Edges :
            /\ vector_to_skewtensor(fwdT.edge_vec[e])
                 = Conj(args.R, vector_to_skewtensor(fwd.edge_vec[e]))
            /\ vector_to_symtensor(fwdT.edge_vec[e])
                 = Conj(args.R, vector_to_symtensor(fwd.edge_vec[e]))

\* C2 as amended: the embedding of the edges R.v is R.T.R^t for every rotation
\* R and R.T^t.R^t for every improper R (the antisymmetric part changes sign):
\* skew(R.v) = det(R) R.skew(v).R^t, symtensor(R.v) = R.symtensor(v).R^t.
C2_EmbeddingEquivariant ==
    pc = "embedded" =>
        /\ fwdT.X = ConjAll(args.R, IF IsRotation THEN fwd.X ELSE TransposeAll(fwd.X))
        /\ \A e \in Edges :
            /\ vector_to_skewtensor(fwdT.edge_vec[e])
                 = Conj(args.R, IF IsRotation THEN vector_to_skewtensor(fwd.edge_vec[e])
                                ELSE Transpose(vector_to_skewtensor(fwd.edge_vec[e])))
            /\ vector_to_symtensor(fwdT.edge_vec[e])
                 = Conj(args.R, vector_to_symtensor(fwd.edge_vec[e]))

\* an improper transform has been applied and some atom's embedding is finite
\* with a non-zero antisymmetric part
C2_Witness ==
    /\ pc = "embedded"
    /\ ~IsRotation
    /\ \E a \in Nodes, c \in Chan :
        /\ \A i \in Idx, j \in Idx : IsFinite(fwd.X[a][c][i][j])
        /\ fwd.X[a][c] # Transpose(fwd.X[a][c])
        /\ fwdT.X[a][c] # Conj(args.R, fwd.X[a][c])

\* C3: with "O(3)" the squared norms of the I, A and S parts of the final node
\* tensor are unchanged by every transform of the edge vectors, mirrors
\* included; with "SO(3)" they are unchanged by every rotation.
C3_ReadoutInvariant ==
    (pc = "done" /\ (self.group = "O(3)" \/ IsRotation)) => fwdT.norms = fwd.norms

\* C4: the layer returns X + dX + dX.dX with the 3x3 matrix product dX.dX,
\* for each atom and channel.
C4_ResidualIsMatrixSquare ==
    pc = "layer" =>
        \A a \in Nodes, c \in Chan :
            fwd.X[a][c] = MatAdd(MatAdd(fwd.Xn[a][c], fwd.dX[a][c]),
                                 MatMul(fwd.dX[a][c], fwd.dX[a][c]))

\* C6: no element of the divisor of edge_vec is zero, and the vector of every
\* self-loop stays the zero vector.
C6_DivisorNonZero ==
    pc = "normalized" =>
        \A e \in Edges :
            /\ fwd.divisor[e] # 0
            /\ args.src[e] = args.tgt[e] => fwd.edge_vec[e] = [k \in Idx |-> 0]

(***************************************************************************)
(* The two forward passes over a provider buffer with sentinel slots.      *)
(***************************************************************************)
RECURSIVE MaskSelect(_, _, _)
\* seq[mask] for the first e elements: the elements whose mask is True, in order
MaskSelect(seq, mask, e) ==
    IF e = 0 THEN <<>>
    ELSE IF mask[e] THEN Append(MaskSelect(seq, mask, e - 1), seq[e])
    ELSE MaskSelect(seq, mask, e - 1)

CapturableRemap_NoGhost(src, tgt, n) ==
    [src |-> [e \in 1..Len(src) |-> IF src[e] >= 0 THEN src[e] ELSE 0],
     tgt |-> [e \in 1..Len(src) |-> IF src[e] >= 0 THEN tgt[e] ELSE 0]]

\* lines 196-197: edge_index * mask + (~mask) * z.size(0), mask from row 0
CapturableRemap(src, tgt, n) ==
    [src |-> [e \in 1..Len(src) |-> IF src[e] >= 0 THEN src[e] ELSE n],
     tgt |-> [e \in 1..Len(src) |-> IF src[e] >= 0 THEN tgt[e] ELSE n]]

\* CapturableTensorNet.forward; lines 199-208 repeat _update_interaction_layers
CapturableTensorNet_forward(m, z, src, tgt, edge_weight, edge_vec) ==
    LET n == Cardinality(DOMAIN z)
    IN  Bind2(CapturableRemap(src, tgt, n), [a \in 0..n |-> IF a < n THEN z[a] ELSE 0],
            LAMBDA ei, zp :
                Bind(update_interaction_layers(m, zp, ei.src, ei.tgt, edge_weight, edge_vec),
                     LAMBDA x :
                        [src |-> ei.src, tgt |-> ei.tgt,
                         x |-> [a \in 0..(Cardinality(DOMAIN x) - 2) |-> x[a]]]))

\* TensorNet.forward from the provider's output on: lines 396-406
TensorNet_forward(m, z, src, tgt, edge_weight, edge_vec) ==
    LET mask == [e \in 1..Len(src) |-> src[e] >= 0]
        E == Len(src)
    IN  [x |-> update_interaction_layers(m, z, MaskSelect(src, mask, E),
                                         MaskSelect(tgt, mask, E),
                                         MaskSelect(edge_weight, mask, E),
                                         MaskSelect(edge_vec, mask, E))]

(***************************************************************************)
(* Specification SpecPad: both forward passes on the same padded buffer.   *)
(* fwd is the run of CapturableTensorNet, fwdT the run of TensorNet.       *)
(***************************************************************************)
InitPad ==
    /\ pc = "call"
    /\ \E g \in Groups, sd \in 1..NumSeeds, nl \in 0..NumLayers :
        self = [group |-> g, seed |-> sd, num_layers |-> nl]
    /\ \E p \in Displacements, order \in 1..3, pad \in 0..MaxPad, zseed \in 0..1 :
        LET d == Distance(p, order, pad)
        IN  args = [z |-> Species(zseed), src |-> d.src, tgt |-> d.tgt,
                    edge_weight |-> d.edge_weight, edge_vec |-> d.edge_vec]
    /\ fwd = NoRun
    /\ fwdT = NoRun

CapturableForward ==
    /\ fwd = NoRun
    /\ fwd' = CapturableTensorNet_forward(self, args.z, args.src, args.tgt,
                                          args.edge_weight, args.edge_vec)
    /\ pc' = IF fwdT = NoRun THEN "one" ELSE "both"
    /\ UNCHANGED <<self, args, fwdT>>

TensorNetForward ==
    /\ fwdT = NoRun
    /\ fwdT' = TensorNet_forward(self, args.z, args.src, args.tgt,
                                 args.edge_weight, args.edge_vec)
    /\ pc' = IF fwd = NoRun THEN "one" ELSE "both"
    /\ UNCHANGED <<self, args, fwd>>

NextPad == CapturableForward \/ TensorNetForward

SpecPad == InitPad /\ [][NextPad]_vars

\* C5: on a buffer with appended sentinel edges CapturableTensorNet.forward
\* returns exactly n_atoms rows, equal to those TensorNet.forward returns after
\* filtering the sentinels out, and no edge joins the ghost atom to a real atom.
C5_PaddingInvariance ==
    pc = "both" =>
        /\ DOMAIN fwd.x = DOMAIN args.z
        /\ fwd.x = fwdT.x
        /\ \A e \in 1..Len(args.src) :
            /\ (fwd.src[e] = NumAtoms) = (args.src[e] < 0)
            /\ (fwd.tgt[e] = NumAtoms) = (args.src[e] < 0)

\* both passes have run on a buffer with sentinel slots, through at least one
\* interaction layer, and every output is finite
C5_Witness ==
    /\ pc = "both"
    /\ \E e \in 1..Len(args.src) : args.src[e] < 0
    /\ self.num_layers >= 1
    /\ \A a \in DOMAIN fwd.x, c \in Chan : IsFinite(fwd.x[a][c])

(***************************************************************************)
(* Specification SpecAgg: TensorPassing.aggregate on drawn per-edge values *)
(* (fwd) and on the same edges in a permuted order (fwdT).                 *)
(***************************************************************************)
NumEdges == 3

Injective(f) == \A x \in DOMAIN f, y \in DOMAIN f : f[x] = f[y] => x = y
EdgePerms == {f \in [1..NumEdges -> 1..NumEdges] : Injective(f)}

\* the per-edge tensors of edge e: small multiples of the identity, a skew and
\* a symmetric traceless matrix, different from edge to edge
EdgeValue(vseed, e) ==
    LET v == <<F(e + vseed), F(2 - e), F(vseed * e)>>
    IN  [I |-> [c \in Chan |-> MatScale(F(e + c + vseed), Eye)],
         A |-> [c \in Chan |-> MatScale(F(c), vector_to_skewtensor(v))],
         S |-> [c \in Chan |-> MatScale(F(c + 1), vector_to_symtensor(v))]]

InitAgg ==
    /\ pc = "call"
    /\ self = NoRun
    /\ \E index \in [1..NumEdges -> 0..(NumAtoms - 1)], perm \in EdgePerms,
          vseed \in 1..NumSeeds :
        args = [features |-> [I |-> [e \in 1..NumEdges |-> EdgeValue(vseed, e).I],
                              A |-> [e \in 1..NumEdges |-> EdgeValue(vseed, e).A],
                              S |-> [e \in 1..NumEdges |-> EdgeValue(vseed, e).S]],
                index |-> index, perm |-> perm, dim_size |-> NumAtoms]
    /\ fwd = NoRun
    /\ fwdT = NoRun

Permuted(seq, perm) == [e \in DOMAIN seq |-> seq[perm[e]]]

Aggregate ==
    /\ pc = "call"
    /\ pc' = "aggregated"
    /\ fwd' = TensorPassing_aggregate(args.features, args.index, args.dim_size)
    /\ fwdT' = TensorPassing_aggregate(
                    [I |-> Permuted(args.features.I, args.perm),
                     A |-> Permuted(args.features.A, args.perm),
                     S |-> Permuted(args.features.S, args.perm)],
                    Permuted(args.index, args.perm), args.dim_size)
    /\ UNCHANGED <<self, args>>

NextAgg == Aggregate

SpecAgg == InitAgg /\ [][NextAgg]_vars

RECURSIVE SumOver(_, _)
\* the sum of vals[e] over the set of edges es, in no particular order
SumOver(es, vals) ==
    IF es = {} THEN ZeroCT
    ELSE LET e == CHOOSE x \in es : TRUE
         IN  CTAdd(vals[e], SumOver(es \ {e}, vals))

\* C8: aggregate returns exactly numAtoms entries, entry i the sum of the
\* values of all edges whose target is i (zero without an incoming edge), and
\* the same result for every permutation of the edge list.
C8_Aggregate ==
    pc = "aggregated" =>
        /\ \A part \in {"I", "A", "S"} :
            /\ DOMAIN fwd[part] = 0..(args.dim_size - 1)
            /\ \A i \in 0..(args.dim_size - 1) :
                fwd[part][i] = SumOver({e \in 1..NumEdges : args.index[e] = i},
                                       args.features[part])
        /\ fwdT = fwd

\* an atom without an incoming edge and an atom with several, aggregated from
\* an edge list and from a permutation of it that is not the identity
C8_Witness ==
    /\ pc = "aggregated"
    /\ \E i \in 0..(args.dim_size - 1) : \A e \in 1..NumEdges : args.index[e] # i
    /\ \E e1 \in 1..NumEdges, e2 \in 1..NumEdges :
        e1 # e2 /\ args.index[e1] = args.index[e2]
    /\ \E e \in 1..NumEdges : args.perm[e] # e
    /\ \E i \in 0..(args.dim_size - 1) : fwd.A[i] # ZeroCT

(***************************************************************************)
(* Specification SpecCtor: the constructors of TensorNet,                  *)
(* CapturableTensorNet and TensorNetGraph, one step per statement group.   *)
(* args holds the constructor's arguments, self.created the sub-components *)
(* created so far, in order.  TensorNetGraph runs the constructor of       *)
(* CapturableTensorNet for self.capturable and then creates                *)
(* self.uncapturable.                                                      *)
(***************************************************************************)
MaxNumLayers == 2

Classes == {"TensorNet", "CapturableTensorNet", "TensorNetGraph"}

\* the keys of rbf_class_mapping and act_class_mapping (torchmdnet.models.utils)
rbf_class_mapping == {"gauss", "expnorm"}
act_class_mapping == {"ssp", "silu", "tanh", "sigmoid"}

RbfOK(rbf_type) == rbf_type \in rbf_class_mapping
ActivationOK(activation) == activation \in act_class_mapping

GroupOK_Any(group) == TRUE

GroupOK(group) == group \in {"O(3)", "SO(3)"}

InitCtor ==
    /\ pc = "super"
    /\ \E cls \in Classes, rbf \in {"expnorm", "gauss", "bessel"},
          act \in {"silu", "relu"}, g \in {"O(3)", "SO(3)", "E(3)"},
          nl \in (-1)..MaxNumLayers :
        args = [cls |-> cls, hidden_channels |-> 128, num_layers |-> nl,
                num_rbf |-> 32, rbf_type |-> rbf, activation |-> act,
                cutoff_lower |-> 0, cutoff_upper |-> 5, max_z |-> 128,
                max_num_neighbors |-> 64, equivariance_invariance_group |-> g]
    /\ self = [created |-> <<>>, num_layers |-> 0, layers |-> 0,
               group |-> "", fields |-> FALSE]
    /\ fwd = NoRun
    /\ fwdT = NoRun

Created(name) == self' = [self EXCEPT !.created = Append(@, name)]

\* assert rbf_type in rbf_class_mapping
CheckRbf ==
    /\ pc = "super"
    /\ pc' = IF RbfOK(args.rbf_type) THEN "rbf" ELSE "raised"
    /\ UNCHANGED <<self, args, fwd, fwdT>>

\* assert activation in act_class_mapping
CheckActivation ==
    /\ pc = "rbf"
    /\ pc' = IF ActivationOK(args.activation) THEN "act" ELSE "raised"
    /\ UNCHANGED <<self, args, fwd, fwdT>>

\* assert equivariance_invariance_group in ["O(3)", "SO(3)"]
CheckGroup ==
    /\ pc = "act"
    /\ pc' = IF GroupOK(args.equivariance_invariance_group) THEN "group" ELSE "raised"
    /\ UNCHANGED <<self, args, fwd, fwdT>>

\* the field assignments, stored as given
SetFields ==
    /\ pc = "group"
    /\ pc' = "fields"
    /\ self' = [self EXCEPT !.fields = TRUE, !.num_layers = args.num_layers,
                            !.group = args.equivariance_invariance_group]
    /\ UNCHANGED <<args, fwd, fwdT>>

\* self.distance = OptimizedDistance(...), in TensorNet only
CreateDistance ==
    /\ pc = "fields"
    /\ args.cls = "TensorNet"
    /\ pc' = "distance"
    /\ Created("distance")
    /\ UNCHANGED <<args, fwd, fwdT>>

CreateExpansion ==
    /\ \/ pc = "distance"
       \/ pc = "fields" /\ args.cls # "TensorNet"
    /\ pc' = "expansion"
    /\ Created("distance_expansion")
    /\ UNCHANGED <<args, fwd, fwdT>>

CreateEmbedding ==
    /\ pc = "expansion"
    /\ pc' = "embedding"
    /\ Created("tensor_embedding")
    /\ UNCHANGED <<args, fwd, fwdT>>

\* one iteration of: if num_layers != 0: for _ in range(num_layers)
AppendLayer ==
    /\ pc = "embedding"
    /\ args.num_layers # 0
    /\ self.layers < args.num_layers
    /\ self' = [self EXCEPT !.layers = @ + 1, !.created = Append(@, "layer")]
    /\ UNCHANGED <<pc, args, fwd, fwdT>>

\* after the loop: linear, out_norm, act, reset_parameters
CreateReadout ==
    /\ pc = "embedding"
    /\ args.num_layers = 0 \/ self.layers >= args.num_layers
    /\ pc' = IF args.cls = "CapturableTensorNet" THEN "constructed" ELSE "readout"
    /\ Created("linear")
    /\ UNCHANGED <<args, fwd, fwdT>>

\* TensorNet: torch.cuda.make_graphed_callables, which needs a CUDA device
CaptureGraph ==
    /\ pc = "readout"
    /\ args.cls = "TensorNet"
    /\ pc' \in {"constructed", "raised"}
    /\ UNCHANGED <<self, args, fwd, fwdT>>

\* TensorNetGraph: self.uncapturable = UncapturableTensorNet(...), scripted
CreateUncapturable ==
    /\ pc = "readout"
    /\ args.cls = "TensorNetGraph"
    /\ pc' = "constructed"
    /\ Created("uncapturable")
    /\ UNCHANGED <<args, fwd, fwdT>>

NextCtor ==
    \/ CheckRbf \/ CheckActivation \/ CheckGroup \/ SetFields
    \/ CreateDistance \/ CreateExpansion \/ CreateEmbedding
    \/ AppendLayer \/ CreateReadout \/ CaptureGraph \/ CreateUncapturable

SpecCtor == InitCtor /\ [][NextCtor]_vars

EnumInvalid ==
    \/ ~(args.rbf_type \in rbf_class_mapping)
    \/ ~(args.activation \in act_class_mapping)
    \/ ~(args.equivariance_invariance_group \in {"O(3)", "SO(3)"})

\* C9: with an unknown rbf_type, activation or group the constructor of each
\* of the three classes never gets past its assertions: no field is set, no
\* sub-component is created, and the model is never constructed.
C9_EnumeratedFieldsRejected ==
    EnumInvalid =>
        /\ pc \in {"super", "rbf", "act", "raised"}
        /\ self.created = <<>>
        /\ ~self.fields

\* the last of the three assertions has raised, on an unknown group
C9_Witness ==
    /\ pc = "raised"
    /\ RbfOK(args.rbf_type) /\ ActivationOK(args.activation)
    /\ ~(args.equivariance_invariance_group \in {"O(3)", "SO(3)"})
    /\ self.created = <<>>

NumericInvalid ==
    \/ args.hidden_channels <= 0
    \/ args.num_layers < 0
    \/ args.num_rbf <= 0
    \/ args.cutoff_lower < 0
    \/ args.cutoff_upper <= args.cutoff_lower
    \/ args.max_z <= 0
    \/ args.max_num_neighbors <= 0

\* C10: a configuration with an out-of-range numeric field is never
\* constructed.
C10_NumericFieldsValidated == NumericInvalid => pc # "constructed"

\* a model constructed with a negative layer count and no layer
C10_Witness ==
    /\ pc = "constructed"
    /\ args.num_layers < 0
    /\ self.layers = 0

(***************************************************************************)
(* Specification SpecAlg: the tensor algebra applied to drawn matrices.    *)
(***************************************************************************)
Entries == {-1, 0, 2}
Rows == {<<a, b, c>> : a \in Entries, b \in Entries, c \in Entries}
AlgMatrices == {<<r1, r2, <<r1[2], 2, r2[1]>> >> : r1 \in Rows, r2 \in Rows}
    \cup {<<<<1, r[1], r[2]>>, <<0, -1, r[3]>>, r>> : r \in Rows}

FMat(M) == [i \in Idx |-> [j \in Idx |-> F(M[i][j])]]

InitAlg ==
    /\ pc = "alg"
    /\ self = NoRun
    /\ \E M \in AlgMatrices : args = [tensor |-> FMat(M)]
    /\ fwd = NoRun
    /\ fwdT = NoRun

DecomposeTensor ==
    /\ pc = "alg"
    /\ pc' = "decomposed"
    /\ fwd' = decompose_tensor(args.tensor)
    /\ UNCHANGED <<self, args, fwdT>>

NextAlg == DecomposeTensor

SpecAlg == InitAlg /\ [][NextAlg]_vars

\* C7: decompose_tensor(T) = (I, A, S) with I = (trace(T)/3)*identity,
\* A = (T - T^t)/2 antisymmetric, S = (T + T^t)/2 - I symmetric and traceless,
\* and I + A + S = T.  Stated with products, where the source divides.
C7_Decomposition ==
    pc = "decomposed" =>
        LET T == args.tensor IN
        /\ \A i \in Idx, j \in Idx :
            /\ FMul(F(3), fwd.I[i][j]) = (IF i = j THEN Trace(T) ELSE 0)
            /\ FMul(F(2), fwd.A[i][j]) = FSub(T[i][j], T[j][i])
            /\ fwd.A[i][j] = FNeg(fwd.A[j][i])
            /\ FMul(F(2), FAdd(fwd.S[i][j], fwd.I[i][j])) = FAdd(T[i][j], T[j][i])
            /\ fwd.S[i][j] = fwd.S[j][i]
        /\ Trace(fwd.S) = 0
        /\ MatAdd(MatAdd(fwd.I, fwd.A), fwd.S) = T

\* a matrix with a non-zero trace and a non-symmetric off-diagonal pair has been decomposed
C7_Witness ==
    /\ pc = "decomposed"
    /\ Trace(args.tensor) # 0
    /\ args.tensor[1][2] # args.tensor[2][1]
    /\ fwd.A # ZeroMat
    /\ fwd.S # ZeroMat


(***************************************************************************)
(* Specification SpecVec: vector_to_skewtensor and vector_to_symtensor     *)
(* applied to every 3-vector with integer components of magnitude up to    *)
(* MaxComponent.                                                           *)
(***************************************************************************)
MaxComponent == 2

Components == (-MaxComponent)..MaxComponent
Vectors == {<<a, b, c>> : a \in Components, b \in Components, c \in Components}
FVec(v) == [k \in Idx |-> F(v[k])]

InitVec ==
    /\ pc = "vec"
    /\ self = NoRun
    /\ \E v \in Vectors : args = [vector |-> FVec(v)]
    /\ fwd = NoRun
    /\ fwdT = NoRun

VectorToSkewtensor ==
    /\ fwd = NoRun
    /\ fwd' = [tensor |-> vector_to_skewtensor(args.vector)]
    /\ pc' = IF fwdT = NoRun THEN "one" ELSE "built"
    /\ UNCHANGED <<self, args, fwdT>>

VectorToSymtensor ==
    /\ fwdT = NoRun
    /\ fwdT' = [tensor |-> vector_to_symtensor(args.vector)]
    /\ pc' = IF fwd = NoRun THEN "one" ELSE "built"
    /\ UNCHANGED <<self, args, fwd>>

NextVec == VectorToSkewtensor \/ VectorToSymtensor

SpecVec == InitVec /\ [][NextVec]_vars

\* the cross product v x w and the matrix-vector product K.w, in the field
Cross(v, w) ==
    << FSub(FMul(v[2], w[3]), FMul(v[3], w[2])),
       FSub(FMul(v[3], w[1]), FMul(v[1], w[3])),
       FSub(FMul(v[1], w[2]), FMul(v[2], w[1])) >>
MatVec(K, w) ==
    [i \in Idx |-> FAdd(FAdd(FMul(K[i][1], w[1]), FMul(K[i][2], w[2])), FMul(K[i][3], w[3]))]
ZeroVec == [k \in Idx |-> 0]

\* C11: vector_to_skewtensor(v) is the skew-symmetric matrix K with
\* K.w = v x w for every w; vector_to_symtensor(v) is v.v^t - (|v|^2/3).identity
\* (stated with the product by 3, where the source divides); both are the
\* zero matrix for the zero vector.
C11_SkewAndSymTensor ==
    pc = "built" =>
        LET v == args.vector
            K == fwd.tensor
            S == fwdT.tensor
        IN  /\ K = [i \in Idx |-> [j \in Idx |-> FNeg(K[j][i])]]
            /\ \A w \in Vectors : MatVec(K, FVec(w)) = Cross(v, FVec(w))
            /\ \A i \in Idx, j \in Idx :
                FMul(F(3), S[i][j])
                    = FSub(FMul(F(3), FMul(v[i], v[j])),
                           IF i = j THEN FAdd(FAdd(FMul(v[1], v[1]), FMul(v[2], v[2])),
                                              FMul(v[3], v[3]))
                           ELSE 0)
            /\ v = ZeroVec => (K = ZeroMat /\ S = ZeroMat)

\* both tensors have been built from a vector with three non-zero components
\* of different magnitude, and neither is the zero matrix
C11_Witness ==
    /\ pc = "built"
    /\ \A k \in Idx : args.vector[k] # 0
    /\ args.vector[1] # args.vector[2]
    /\ fwd.tensor # ZeroMat
    /\ fwd.tensor # Transpose(fwd.tensor)
    /\ fwdT.tensor # ZeroMat


(***************************************************************************)
(* The complete forward calls of TensorNet and TensorNetGraph, from the    *)
(* positions on.  An Optional[Tensor] is None or Some(tensor).             *)
(***************************************************************************)
None == [is_none |-> TRUE]
Some(v) == [is_none |-> FALSE, value |-> v]

\* the provider on given positions: the ordered pairs of atoms of one batch
\* closer than cutoff_upper, self-loops last, followed by pad sentinel slots
OptimizedDistance(pos, batch, pad) ==
    LET Vec(e) == [k \in Idx |-> pos[e.src][k] - pos[e.tgt][k]]
        InRange(e) == batch[e.src] = batch[e.tgt] /\ IntNorm(Vec(e)) < CutoffUpper
        pairs == SelectSeq(PairOrder(1), InRange)
        E == Len(pairs)
        all == 1..(E + pad)
    IN  [src |-> [e \in all |-> IF e <= E THEN pairs[e].src ELSE -1],
         tgt |-> [e \in all |-> IF e <= E THEN pairs[e].tgt ELSE -1],
         edge_weight |-> [e \in all |-> IF e <= E THEN IntNorm(Vec(pairs[e])) ELSE 0],
         edge_vec |-> [e \in all |-> IF e <= E THEN Vec(pairs[e]) ELSE <<0, 0, 0>>]]

TensorNet_forward_UsesCharge(m, z, pos, batch, q, s) ==
    Bind(OptimizedDistance(pos, batch, m.pad), LAMBDA d :
        Bind(TensorNet_forward(m, z, d.src, d.tgt, d.edge_weight, d.edge_vec).x, LAMBDA x :
            [x |-> IF q.is_none THEN x
                   ELSE [a \in DOMAIN x |-> [c \in Chan |-> FAdd(x[a][c], F(q.value[a]))]],
             vec |-> None, z |-> z, pos |-> pos, batch |-> batch]))

\* TensorNet.forward(z, pos, batch, q, s): lines 382-406
TensorNet_forward_full(m, z, pos, batch, q, s) ==
    Bind(OptimizedDistance(pos, batch, m.pad), LAMBDA d :
        [x |-> TensorNet_forward(m, z, d.src, d.tgt, d.edge_weight, d.edge_vec).x,
         vec |-> None, z |-> z, pos |-> pos, batch |-> batch])

\* TensorNetGraph.forward(z, pos, batch, q, s): lines 235-244
TensorNetGraph_forward(m, z, pos, batch, q, s) ==
    Bind(OptimizedDistance(pos, batch, m.pad), LAMBDA d :
        [x |-> CapturableTensorNet_forward(m, z, d.src, d.tgt, d.edge_weight, d.edge_vec).x,
         vec |-> None, z |-> z, pos |-> pos, batch |-> batch])

ModelForward(m, z, pos, batch, q, s) ==
    IF m.cls = "TensorNet" THEN TensorNet_forward_full(m, z, pos, batch, q, s)
    ELSE TensorNetGraph_forward(m, z, pos, batch, q, s)

(***************************************************************************)
(* Specification SpecCall: two forward calls of one model on the same z,   *)
(* pos and batch, the first with (q, s), the second with (qT, sT).         *)
(***************************************************************************)
Positions(p) == [a \in 0..(NumAtoms - 1) |-> VecScale(a, p)]
\* one molecule, or the last atom in a molecule of its own
Batches == {[a \in 0..(NumAtoms - 1) |-> 0],
            [a \in 0..(NumAtoms - 1) |-> IF a = NumAtoms - 1 THEN 1 ELSE 0]}
Optionals == {None, Some([a \in 0..(NumAtoms - 1) |-> a + 1])}

InitCall ==
    /\ pc = "call"
    /\ \E cls \in {"TensorNet", "TensorNetGraph"}, nl \in 0..NumLayers :
        self = [cls |-> cls, group |-> "O(3)", seed |-> 1, num_layers |-> nl, pad |-> 1]
    /\ \E p \in Displacements, batch \in Batches,
          q \in Optionals, s \in Optionals, qT \in Optionals, sT \in Optionals :
        args = [z |-> Species(0), pos |-> Positions(p), batch |-> batch,
                q |-> q, s |-> s, qT |-> qT, sT |-> sT]
    /\ fwd = NoRun
    /\ fwdT = NoRun

FirstCall ==
    /\ pc = "call"
    /\ pc' = "called"
    /\ fwd' = ModelForward(self, args.z, args.pos, args.batch, args.q, args.s)
    /\ UNCHANGED <<self, args, fwdT>>

SecondCall ==
    /\ pc = "called"
    /\ pc' = "called twice"
    /\ fwdT' = ModelForward(self, args.z, args.pos, args.batch, args.qT, args.sT)
    /\ UNCHANGED <<self, args, fwd>>

NextCall == FirstCall \/ SecondCall

SpecCall == InitCall /\ [][NextCall]_vars

\* C12: forward returns z, pos and batch as they were given, next to the
\* per-atom output, and two calls that differ only in q or s return the same
\* result.
C12_PassThroughAndAuxIgnored ==
    /\ pc \in {"called", "called twice"} =>
        /\ fwd.z = args.z /\ fwd.pos = args.pos /\ fwd.batch = args.batch
        /\ DOMAIN fwd.x = DOMAIN args.z
    /\ pc = "called twice" => fwdT = fwd

\* two calls with different q and different s have returned, on one molecule
\* and through at least one interaction layer, a finite output
C12_Witness ==
    /\ pc = "called twice"
    /\ args.q # args.qT
    /\ args.s # args.sT
    /\ self.num_layers >= 1
    /\ \A a \in DOMAIN args.batch : args.batch[a] = 0
    /\ \A a \in DOMAIN fwd.x, c \in Chan : IsFinite(fwd.x[a][c])


(***************************************************************************)
(* The masked assignment the source names as the equivalent of its edge    *)
(* normalisation (comment lines 111-113 and 402-404), checked under Spec.  *)
(***************************************************************************)
\* edge_vec[mask] = edge_vec[mask] / edge_weight[mask].unsqueeze(1)
MaskedAssignment(edge_vec, mask, edge_weight) ==
    [e \in 1..Len(edge_vec) |->
        IF mask[e] THEN [k \in Idx |-> FDiv(F(edge_vec[e][k]), F(edge_weight[e]))]
        ELSE [k \in Idx |-> F(edge_vec[e][k])]]

EdgeMask == [e \in Edges |-> args.src[e] # args.tgt[e]]

\* C13: the normalisation by ones_like(edge_weight).masked_scatter(mask,
\* edge_weight) is the masked assignment: every edge with source != target is
\* divided by its own distance, every other edge by 1, wherever the
\* self-loops are in the list.
C13_NormalizationIsMaskedAssignment ==
    pc = "normalized" =>
        /\ fwd.divisor = masked_scatter_Aligned([e \in Edges |-> 1], EdgeMask,
                                                [e \in Edges |-> F(args.edge_weight[e])])
        /\ fwd.edge_vec = MaskedAssignment(args.edge_vec, EdgeMask, args.edge_weight)

\* the edge list has been normalised with a self-loop listed before an edge
\* between two atoms, and that edge was not divided by its own distance
C13_Witness ==
    /\ pc = "normalized"
    /\ \E e1 \in Edges, e2 \in Edges :
        /\ e1 < e2
        /\ args.src[e1] = args.tgt[e1]
        /\ args.src[e2] # args.tgt[e2]
        /\ fwd.divisor[e2] # F(args.edge_weight[e2])

=============================================================================
